---- MODULE Spec2Model ----
(***************************************************************************)
(* terraform-cloud-action: src/main.go, lines 1-296 (the program that      *)
(* reconciles workspace variables, creates a configuration version and a   *)
(* run, and polls the run; lines 298-391 of the file hold an earlier run() *)
(* with no variables and no wait switch, which is not modelled).  One      *)
(* invocation of run() against the remote service, with a concurrent       *)
(* external writer on the same workspace, an interrupt signal, and a       *)
(* clock.  json-vars is taken to be well-formed JSON.  The default of the  *)
(* wait input is the one the action declares for a step that leaves it out.*)
(*                                                                         *)
(* Text is a sequence of one-character strings, so that the conversions    *)
(* (convertValueToString, containsHCLSyntax) are computed, not assumed.    *)
(* Time is in seconds.                                                     *)
(***************************************************************************)
EXTENDS Integers, Sequences, FiniteSets, TLC

\* ------------------------------------------------------------------ bounds

\* Most status reads followed in one wait.
MaxReads == 2
\* Most writes of the concurrent external writer during one invocation.
MaxExtWrites == 1
\* Items on the one page a Variables.List call returns.
PageSize == 2

\* Longest string the conversions are tried on by themselves.
MaxTextLen == 2

\* ------------------------------------------------------- program constants

\* const maximumTimeout = time.Minute * 60
maximumTimeout == 3600
\* time.After(time.Second * 5)
pollInterval == 5

\* ------------------------------------------------------------------ values

Some(x) == [set |-> TRUE, v |-> x]
NoBool == [set |-> FALSE, v |-> FALSE]
NoText == [set |-> FALSE, v |-> ""]

DigitChars == <<"0", "1", "2", "3", "4", "5", "6", "7", "8", "9">>

RECURSIVE Decimal(_)
\* fmt's %d of a natural number.
Decimal(n) == IF n < 10 THEN <<DigitChars[n + 1]>>
              ELSE Decimal(n \div 10) \o <<DigitChars[(n % 10) + 1]>>

RECURSIVE PadLeft(_, _)
PadLeft(s, w) == IF Len(s) >= w THEN s ELSE PadLeft(<<"0">> \o s, w)

Sign(neg) == IF neg THEN <<"-">> ELSE <<>>

\* A conversion that prints a string the way %q does.
convertValueToString_quoted(value) ==
    CASE value.t = "string" -> <<"\"">> \o value.s \o <<"\"">>
      [] value.t = "bool" -> IF value.b THEN <<"t", "r", "u", "e">>
                             ELSE <<"f", "a", "l", "s", "e">>
      [] value.t = "int" -> Sign(value.neg) \o Decimal(value.units)
      [] value.t = "float64" ->
            Sign(value.neg) \o Decimal(value.units) \o <<".">>
                \o PadLeft(Decimal(value.micros), 6)
      [] OTHER -> <<"<", "n", "i", "l", ">">>

\* func convertValueToString(value interface{}) string
convertValueToString(value) ==
    CASE value.t = "string" -> value.s
      [] value.t = "bool" -> IF value.b THEN <<"t", "r", "u", "e">>
                             ELSE <<"f", "a", "l", "s", "e">>
      [] value.t = "int" -> Sign(value.neg) \o Decimal(value.units)
      [] value.t = "float64" ->
            Sign(value.neg) \o Decimal(value.units) \o <<".">>
                \o PadLeft(Decimal(value.micros), 6)
      [] OTHER -> <<"<", "n", "i", "l", ">">>

Contains(s, c) == \E k \in 1..Len(s) : s[k] = c

\* A detection that leaves the comma out.
containsHCLSyntax_noComma(value) ==
    \/ Contains(value, "[")
    \/ Contains(value, "]")
    \/ Contains(value, "{")
    \/ Contains(value, "}")
    \/ Contains(value, "=")

\* func containsHCLSyntax(value string) bool
containsHCLSyntax(value) ==
    \/ Contains(value, "[")
    \/ Contains(value, "]")
    \/ Contains(value, "{")
    \/ Contains(value, "}")
    \/ Contains(value, "=")
    \/ Contains(value, ",")

\* --------------------------------------------------------------- the input

\* One element of the json-vars array as the caller wrote it.  A JSON number
\* is [t |-> "number"]; "category" is a member the caller may write.
JsonEntry(key, value, description, hcl, sensitive, category) ==
    [key |-> key, value |-> value, description |-> description,
     hcl |-> hcl, sensitive |-> sensitive, category |-> category]

\* A plain string, nothing else set.
JsonPlain ==
    JsonEntry("a", [t |-> "string", s |-> <<"v">>], NoText, NoBool, NoBool, "")
\* A string with brackets, described and sensitive, hcl left to detection.
JsonBracket ==
    JsonEntry("a", [t |-> "string", s |-> <<"[", "x", "]">>], Some("d"), NoBool,
              Some(TRUE), "")
\* A number under another key, hcl explicitly off, category given.
JsonNumber ==
    JsonEntry("b", [t |-> "number", neg |-> FALSE, units |-> 42, micros |-> 0],
              NoText, Some(FALSE), NoBool, "env")
\* A boolean, hcl explicitly on, sensitive explicitly off, category given.
JsonBool ==
    JsonEntry("a", [t |-> "bool", b |-> TRUE], NoText, Some(TRUE), Some(FALSE),
              "env")

\* The json-vars lists an invocation is checked with.
JsonInputs ==
    { <<>>,
      <<JsonPlain>>, <<JsonBracket>>, <<JsonNumber>>, <<JsonBool>>,
      <<JsonPlain, JsonBracket>>, <<JsonPlain, JsonNumber>>,
      <<JsonNumber, JsonBool>> }

\* encoding/json into interface{}: a JSON number becomes a float64, a string
\* a string, a bool a bool.
DecodeValue(jv) ==
    IF jv.t = "number"
    THEN [t |-> "float64", neg |-> jv.neg, units |-> jv.units, micros |-> jv.micros]
    ELSE jv

\* type workspaceVar struct: Key, Value, Description, HCL, Sensitive.  A JSON
\* member with no field of the struct is dropped by json.Unmarshal.
workspaceVar(j) ==
    [Key |-> j.key, Value |-> DecodeValue(j.value), Description |-> j.description,
     HCL |-> j.hcl, Sensitive |-> j.sensitive]

\* func parseVars() ([]workspaceVar, error)
parseVars(json) == [k \in 1..Len(json) |-> workspaceVar(json[k])]


\* ------------------------------------------------------- the remote service

\* tfe.CategoryTerraform, and the other category the service knows.
CategoryTerraform == "terraform"
CategoryEnv == "env"

RemoteVar(id, key, category, value, hcl, sensitive, description) ==
    [ID |-> id, Key |-> key, Category |-> category, Value |-> value,
     HCL |-> hcl, Sensitive |-> sensitive, Description |-> description]

Old(id, key, category) == RemoteVar(id, key, category, <<"o">>, FALSE, FALSE, "")

\* The workspaces an invocation may start against, in the order the service
\* lists them.
InitialStores ==
    { <<>>,
      <<Old(1, "a", CategoryTerraform)>>,
      <<Old(1, "a", CategoryEnv), Old(2, "a", CategoryTerraform)>>,
      <<Old(1, "x", CategoryTerraform), Old(2, "y", CategoryTerraform)>>,
      <<Old(1, "x", CategoryTerraform), Old(2, "y", CategoryTerraform),
        Old(3, "a", CategoryTerraform)>> }

Min(a, b) == IF a < b THEN a ELSE b

\* client.Variables.List(ctx, w.ID, &tfe.VariableListOptions{}): one request
\* with no page number, answered with the first page; Items is that page.
ListItems(st) == SubSeq(st, 1, Min(PageSize, Len(st)))

IdsOfKey(st, key) == {st[k].ID : k \in {n \in 1..Len(st) : st[n].Key = key}}

\* The service keeps (key, category) unique in a workspace.
KeyTaken(st, req) ==
    \E k \in 1..Len(st) : st[k].Key = req.Key /\ st[k].Category = req.Category

RemoteCreate(st, id, req) ==
    Append(st, RemoteVar(id, req.Key, req.Category, req.Value, req.HCL.v,
                         req.Sensitive.v, req.Description.v))

\* An update changes the members the request sets and leaves the others.
Updated(rv, req) ==
    [rv EXCEPT !.Value = req.Value,
               !.HCL = IF req.HCL.set THEN req.HCL.v ELSE @,
               !.Sensitive = IF req.Sensitive.set THEN req.Sensitive.v ELSE @,
               !.Description = IF req.Description.set THEN req.Description.v ELSE @]

RemoteUpdate(st, id, req) ==
    [k \in 1..Len(st) |-> IF st[k].ID = id THEN Updated(st[k], req) ELSE st[k]]

HasId(st, id) == \E k \in 1..Len(st) : st[k].ID = id

VarOfId(st, id) == st[CHOOSE k \in 1..Len(st) : st[k].ID = id]

RemoveId(st, id) == SelectSeq(st, LAMBDA rv : rv.ID # id)

\* ------------------------------------------------------------- the requests

NoReq == [Key |-> "", Value |-> <<>>, Category |-> "", HCL |-> NoBool,
          Sensitive |-> NoBool, Description |-> NoText]

\* A flag that is false whenever the entry does not set it.
isHCL_explicitOnly(v) == IF v.HCL.set THEN v.HCL.v ELSE FALSE

\* isHCL: the explicit flag, else containsHCLSyntax of the converted value.
isHCL(v) == IF v.HCL.set THEN v.HCL.v
            ELSE containsHCLSyntax(convertValueToString(v.Value))

\* createOpts := tfe.VariableCreateOptions{...}
createOpts(v) ==
    [Key |-> v.Key, Value |-> convertValueToString(v.Value),
     Category |-> CategoryTerraform, HCL |-> Some(isHCL(v)),
     Sensitive |-> Some(IF v.Sensitive.set THEN v.Sensitive.v ELSE FALSE),
     Description |-> v.Description]

\* tfe.VariableUpdateOptions{...} of the existing-variable branch.
updateOpts(v) ==
    [Key |-> "", Value |-> convertValueToString(v.Value), Category |-> "",
     HCL |-> v.HCL, Sensitive |-> v.Sensitive, Description |-> v.Description]

\* tfe.VariableUpdateOptions{...} of the conflict fallback.
fallbackUpdateOpts(v) ==
    [Key |-> "", Value |-> convertValueToString(v.Value), Category |-> "",
     HCL |-> v.HCL, Sensitive |-> v.Sensitive, Description |-> v.Description]

RECURSIVE FirstWithKey(_, _, _)
FirstWithKey(items, key, k) ==
    IF k > Len(items) THEN 0
    ELSE IF items[k].Key = key THEN items[k].ID
    ELSE FirstWithKey(items, key, k + 1)

\* A search that takes the first item whatever its key.
existingVar_first(items, key) == IF Len(items) = 0 THEN 0 ELSE items[1].ID

\* for _, ev := range existingVars.Items { if ev.Key == v.Key {...; break} }
\* The ID of the first item with the key, 0 for nil.
existingVar(items, key) == FirstWithKey(items, key, 1)

\* A second search that takes the first item whatever its key.
updateVar_first(items, key) == IF Len(items) = 0 THEN 0 ELSE items[1].ID

\* for _, ev := range updateVars.Items { if ev.Key == v.Key {...; break} }
updateVar(items, key) == FirstWithKey(items, key, 1)


\* ------------------------------------------------------------------- errors

\* What the remote client answers besides success.
ErrKeyTaken == "Key has already been taken"
ErrRemote == "remote error"
\* ctx.Err() once the interrupt has been delivered.
ErrContextCanceled == "context canceled"

\* A run() that takes every create error for the conflict.
createErrorIsConflict_any(msg) == TRUE

\* if err.Error() == "Key has already been taken"
createErrorIsConflict(msg) == msg = ErrKeyTaken

ErrReadWorkspace == "could not read workspace"
ErrList == "could not list variables"
ErrListForUpdate == "could not list variables for update"
ErrNotFoundForUpdate == "variable not found for update"
ErrUpdate == "could not update variable"
ErrCreate == "could not create variable"
ErrConfigurationVersion == "unable to create configuration version"
ErrCreateRun == "unable to create run"
ErrTimedOut == "run timed out"
ErrFindRun == "unable to find run"

\* ------------------------------------------------------------ run statuses

RunApplied == "applied"
RunPlannedAndFinished == "planned_and_finished"
RunCanceled == "canceled"
RunDiscarded == "discarded"
RunErrored == "errored"
RunPending == "pending"
RunPlanning == "planning"

SuccessStatuses == {RunApplied, RunPlannedAndFinished}
FailureStatuses == {RunCanceled, RunDiscarded, RunErrored}
TerminalStatuses == SuccessStatuses \cup FailureStatuses
RunStatuses == TerminalStatuses \cup {RunPending, RunPlanning}

Finished == "finished"
Continue == "continue"

\* A switch with no case for RunDiscarded.
statusOutcome_noDiscarded(status) ==
    CASE status \in {RunApplied, RunPlannedAndFinished} -> Finished
      [] status = RunCanceled -> "run was canceled"
      [] status = RunErrored -> "run encountered an error"
      [] OTHER -> Continue

\* A switch with one message for the three failure statuses.
statusOutcome_oneMessage(status) ==
    CASE status \in {RunApplied, RunPlannedAndFinished} -> Finished
      [] status \in {RunCanceled, RunDiscarded, RunErrored} ->
            "run did not complete successfully"
      [] OTHER -> Continue

\* A switch with no case for RunPlannedAndFinished.
statusOutcome_plannedContinues(status) ==
    CASE status = RunApplied -> Finished
      [] status = RunCanceled -> "run was canceled"
      [] status = RunDiscarded -> "run was discarded"
      [] status = RunErrored -> "run encountered an error"
      [] OTHER -> Continue

\* A switch that takes RunDiscarded for a success.
statusOutcome_discardedFinished(status) ==
    CASE status \in {RunApplied, RunPlannedAndFinished, RunDiscarded} -> Finished
      [] status = RunCanceled -> "run was canceled"
      [] status = RunErrored -> "run encountered an error"
      [] OTHER -> Continue

\* switch checkin.Status: "return nil" is Finished, "return fmt.Errorf(...)"
\* is the message, no case is Continue.
statusOutcome(status) ==
    CASE status \in {RunApplied, RunPlannedAndFinished} -> Finished
      [] status = RunCanceled -> "run was canceled"
      [] status = RunDiscarded -> "run was discarded"
      [] status = RunErrored -> "run encountered an error"
      [] OTHER -> Continue

\* A select with no cancellation arm.
selectArms_noCancel(done, t) ==
    (IF t >= maximumTimeout THEN {"timeout"} ELSE {})
        \cup (IF t >= pollInterval THEN {"poll"} ELSE {})

\* select { case <-ctx.Done(): / case <-time.After(maximumTimeout): /
\* case <-time.After(time.Second * 5): }: the arms that are ready when the
\* interrupt state is done and t seconds have passed since the select began.
selectArms(done, t) ==
    (IF done THEN {"cancel"} ELSE {})
        \cup (IF t >= maximumTimeout THEN {"timeout"} ELSE {})
        \cup (IF t >= pollInterval THEN {"poll"} ELSE {})

\* How long a process parked in the select stays there once no arm is ready:
\* until the first timer fires, or, when it is not scheduled for that long
\* (a suspended process), until both have fired.
WakeDelays == {pollInterval, maximumTimeout}

\* ------------------------------------------------------------------- state

VARIABLES
    jsonVars,   \* INPUT_JSON-VARS, decoded as JSON
    withWait,   \* "wait" as the workflow step supplies it, "" when it does not
    cv,         \* cv.ID, "" before ConfigurationVersions.Create has answered
    r,          \* r.ID, "" before Runs.Create has answered
    vars,       \* vars, err := parseVars()
    pc,         \* where run() is
    i,          \* index of v in "for _, v := range vars"
    found,      \* existingVar.ID / updateVar.ID, 0 for nil
    store,      \* the workspace's variables at the remote service
    nextId,     \* next identifier the service assigns
    extWrites,  \* writes made by the external writer
    calls,      \* remote calls issued by run(), in order
    out,        \* lines written to stdout
    err,        \* what run() returned ("" for nil), once pc = "done"
    ctxDone,    \* ctx.Done() is closed
    elapsed,    \* seconds since "Waiting for run to complete"
    timer,      \* seconds since the current select created its timers
    polled      \* statuses returned by client.Runs.Read, in order

vars_ == <<jsonVars, withWait, cv, r, vars, pc, i, found, store, nextId, extWrites, calls,
           out, err, ctxDone, elapsed, timer, polled>>

\* One remote call: the operation, the index of the vars entry it was made
\* for (0 outside the loop), the identifier it addressed (for a list, the one
\* the search found), the answer, the request, and, for a list, the
\* identifiers that held the entry's key in the workspace and on the page.
Call(op, entry, id, res, req, inStore, inPage) ==
    [op |-> op, entry |-> entry, id |-> id, res |-> res, req |-> req,
     inStore |-> inStore, inPage |-> inPage]

\* What a workflow step writes for "wait"; "" is a step that leaves it out.
WaitInputs == {"", "true", "false"}

\* The input default the action declares: "wait" is "true" when the step
\* does not supply it.
inputDefault(supplied) == IF supplied = "" THEN "true" ELSE supplied

\* wait = os.Getenv("INPUT_WAIT")
wait == inputDefault(withWait)

\* The steps an invocation is checked with: one that gives json-vars gives
\* wait too; one that leaves wait out leaves json-vars out ("[]").
StepInputs ==
    {in \in [jsonVars : JsonInputs, wait : WaitInputs] :
        in.wait = "" => in.jsonVars = <<>>}

Init ==
    /\ \E in \in StepInputs :
        /\ jsonVars = in.jsonVars
        /\ withWait = in.wait
    /\ cv = ""
    /\ r = ""
    /\ store \in InitialStores
    /\ nextId = Len(store) + 1
    /\ vars = <<>>
    /\ pc = "start"
    /\ i = 0
    /\ found = 0
    /\ extWrites = 0
    /\ calls = <<>>
    /\ out = <<>>
    /\ err = ""
    /\ ctxDone = FALSE
    /\ elapsed = 0
    /\ timer = 0
    /\ polled = <<>>

\* A remote call bound to ctx fails once ctx is done; otherwise the service
\* answers or fails.
Answers == IF ctxDone THEN {ErrContextCanceled} ELSE {"ok", ErrRemote}

\* A loop that leaves the last entry out.
pcOfEntry_skipLast(k, n) == IF k < n THEN "list" ELSE "cv"

\* "for _, v := range vars": the next entry, or the statement after the loop.
pcOfEntry(k, n) == IF k <= n THEN "list" ELSE "cv"


\* ------------------------------------------------------------------ run()

\* parseVars, tfe.NewClient, client.Workspaces.Read, and the entry into the
\* loop over vars.
ReadWorkspace ==
    /\ pc = "start"
    /\ \E res \in Answers :
        /\ vars' = parseVars(jsonVars)
        /\ calls' = Append(calls, Call("Workspaces.Read", 0, 0, res, NoReq, {}, {}))
        /\ IF res = "ok"
           THEN /\ i' = 1
                /\ pc' = pcOfEntry(1, Len(vars'))
                /\ err' = err
           ELSE /\ i' = i
                /\ pc' = "done"
                /\ err' = ErrReadWorkspace
    /\ UNCHANGED <<jsonVars, withWait, cv, r, found, store, nextId, extWrites, out, ctxDone,
                   elapsed, timer, polled>>

\* existingVars, listErr := client.Variables.List(...) and the search for the
\* key.
ListVariables ==
    /\ pc = "list"
    /\ \E res \in Answers :
        /\ calls' = Append(calls, Call("Variables.List", i,
                                       IF res = "ok"
                                       THEN existingVar(ListItems(store), vars[i].Key)
                                       ELSE 0,
                                       res, NoReq,
                                       IdsOfKey(store, vars[i].Key),
                                       IdsOfKey(ListItems(store), vars[i].Key)))
        /\ IF res = "ok"
           THEN /\ found' = existingVar(ListItems(store), vars[i].Key)
                /\ pc' = IF found' = 0 THEN "create" ELSE "update"
                /\ err' = err
           ELSE /\ found' = found
                /\ pc' = "done"
                /\ err' = ErrList
    /\ UNCHANGED <<jsonVars, withWait, cv, r, vars, i, store, nextId, extWrites, out, ctxDone,
                   elapsed, timer, polled>>

\* A line that prints the value next to the key.
createdLine_withValue(v) ==
    <<"Created variable", <<v.Key>> \o convertValueToString(v.Value)>>

\* fmt.Printf("Created variable %q\n", v.Key): the tag and the pieces printed
\* after it.
createdLine(v) == <<"Created variable", <<v.Key>>>>

\* What the service may answer to a create request.
CreateAnswers(req) ==
    IF ctxDone THEN {ErrContextCanceled}
    ELSE IF KeyTaken(store, req) THEN {ErrKeyTaken, ErrRemote}
    ELSE {"ok", ErrRemote}

\* _, err = client.Variables.Create(ctx, w.ID, createOpts) and the branch on
\* its error.
CreateVariable ==
    /\ pc = "create"
    /\ LET req == createOpts(vars[i]) IN
       \E res \in CreateAnswers(req) :
        /\ calls' = Append(calls, Call("Variables.Create", i, 0, res, req, {}, {}))
        /\ IF res = "ok"
           THEN /\ store' = RemoteCreate(store, nextId, req)
                /\ nextId' = nextId + 1
                /\ out' = Append(out, createdLine(vars[i]))
                /\ i' = i + 1
                /\ pc' = pcOfEntry(i + 1, Len(vars))
                /\ err' = err
           ELSE IF createErrorIsConflict(res)
           THEN /\ out' = Append(out, <<"already exists, updating instead",
                                        <<vars[i].Key>>>>)
                /\ pc' = "relist"
                /\ UNCHANGED <<store, nextId, i, err>>
           ELSE /\ pc' = "done"
                /\ err' = ErrCreate
                /\ UNCHANGED <<store, nextId, i, out>>
    /\ UNCHANGED <<jsonVars, withWait, cv, r, vars, found, extWrites, ctxDone, elapsed, timer,
                   polled>>

\* A fallback that creates again when the second search finds nothing.
afterRelist_createAgain(id) == IF id = 0 THEN "create" ELSE "fallbackUpdate"

\* A fallback that repeats the lookup until the key is found.
afterRelist_listAgain(id) == IF id = 0 THEN "relist" ELSE "fallbackUpdate"

\* if updateVar == nil { return ... }: where run() goes with the identifier
\* the second search gave.
afterRelist(id) == IF id = 0 THEN "done" ELSE "fallbackUpdate"

\* updateVars, updateListErr := client.Variables.List(...) after a conflict,
\* and the second search for the key.
RelistVariables ==
    /\ pc = "relist"
    /\ \E res \in Answers :
        /\ calls' = Append(calls, Call("Variables.List", i,
                                       IF res = "ok"
                                       THEN updateVar(ListItems(store), vars[i].Key)
                                       ELSE 0,
                                       res, NoReq,
                                       IdsOfKey(store, vars[i].Key),
                                       IdsOfKey(ListItems(store), vars[i].Key)))
        /\ IF res = "ok"
           THEN /\ found' = updateVar(ListItems(store), vars[i].Key)
                /\ pc' = afterRelist(found')
                /\ err' = IF pc' = "done" THEN ErrNotFoundForUpdate ELSE err
           ELSE /\ found' = found
                /\ pc' = "done"
                /\ err' = ErrListForUpdate
    /\ UNCHANGED <<jsonVars, withWait, cv, r, vars, i, store, nextId, extWrites, out, ctxDone,
                   elapsed, timer, polled>>

\* What the service may answer to an update of the variable id.
UpdateAnswers(id) ==
    IF ctxDone THEN {ErrContextCanceled}
    ELSE IF HasId(store, id) THEN {"ok", ErrRemote}
    ELSE {ErrRemote}

\* client.Variables.Update(ctx, w.ID, <id>, <options>) of either branch.
Update(req) ==
    \E res \in UpdateAnswers(found) :
        /\ calls' = Append(calls, Call("Variables.Update", i, found, res, req, {}, {}))
        /\ IF res = "ok"
           THEN /\ store' = RemoteUpdate(store, found, req)
                /\ out' = Append(out, <<"Updated variable", <<vars[i].Key>>>>)
                /\ i' = i + 1
                /\ pc' = pcOfEntry(i + 1, Len(vars))
                /\ err' = err
           ELSE /\ pc' = "done"
                /\ err' = ErrUpdate
                /\ UNCHANGED <<store, i, out>>

\* The update of the conflict fallback.
FallbackUpdateVariable ==
    /\ pc = "fallbackUpdate"
    /\ Update(fallbackUpdateOpts(vars[i]))
    /\ UNCHANGED <<jsonVars, withWait, cv, r, vars, found, nextId, extWrites, ctxDone, elapsed,
                   timer, polled>>

\* The update of the existing-variable branch.
UpdateVariable ==
    /\ pc = "update"
    /\ Update(updateOpts(vars[i]))
    /\ UNCHANGED <<jsonVars, withWait, cv, r, vars, found, nextId, extWrites, ctxDone, elapsed,
                   timer, polled>>

\* The other inputs of the action, as one workflow step gives them.
organization == "org"
workspace == "ws"
url == "https://app.terraform.io"
message == "Triggered via terraform-cloud-action GitHub Action"

\* The identifiers the service gives the configuration version and the run.
NewConfigurationVersionID == "cv-1"
NewRunID == "run-1"

\* cv, err := client.ConfigurationVersions.Create(...)
CreateConfigurationVersion ==
    /\ pc = "cv"
    /\ \E res \in Answers :
        /\ calls' = Append(calls, Call("ConfigurationVersions.Create", 0,
                                       IF res = "ok" THEN NewConfigurationVersionID
                                       ELSE "",
                                       res, NoReq, {}, {}))
        /\ IF res = "ok"
           THEN /\ cv' = NewConfigurationVersionID
                /\ out' = out \o <<<<"Creating configuration version...", "">>,
                                   <<"Configuration version created", cv'>>>>
                /\ pc' = "run"
                /\ err' = err
           ELSE /\ cv' = cv
                /\ out' = Append(out, <<"Creating configuration version...", "">>)
                /\ pc' = "done"
                /\ err' = ErrConfigurationVersion
    /\ UNCHANGED <<jsonVars, withWait, r, vars, i, found, store, nextId, extWrites,
                   ctxDone, elapsed, timer, polled>>

\* A request that leaves the configuration version out.
runCreateOpts_noConfigurationVersion(c) ==
    [Workspace |-> workspace, ConfigurationVersion |-> "", Refresh |-> TRUE,
     Message |-> message]

\* tfe.RunCreateOptions{Workspace: w, ConfigurationVersion: cv, ...}
runCreateOpts(c) ==
    [Workspace |-> workspace, ConfigurationVersion |-> c, Refresh |-> TRUE,
     Message |-> message]

\* A URL with organization and workspace in each other's place.
runURL_swapped(u, o, w, id) ==
    <<u, "/app/", w, "/workspaces/", o, "/runs/", id>>

\* runURL := fmt.Sprintf("%s/app/%s/workspaces/%s/runs/%s", url, organization,
\* workspace, r.ID): the pieces of the string, in order.
runURL(u, o, w, id) ==
    <<u, "/app/", o, "/workspaces/", w, "/runs/", id>>

\* A switch that waits whatever the input says.
waits_always(w) == TRUE

\* A switch that compares with another spelling.
waits_capitalised(w) == w = "True"

\* if wait != "true" { return nil }
waits(w) == w = "true"

\* r, err := client.Runs.Create(...), the output lines, and the wait switch.
CreateRun ==
    /\ pc = "run"
    /\ \E res \in Answers :
        /\ calls' = Append(calls, Call("Runs.Create", 0,
                                       IF res = "ok" THEN NewRunID ELSE "",
                                       res, runCreateOpts(cv), {}, {}))
        /\ IF res = "ok"
           THEN /\ r' = NewRunID
                /\ out' = out \o <<<<"::set-output name=run-id::", r'>>,
                                   <<"::set-output name=run-url::",
                                     runURL(url, organization, workspace, r')>>,
                                   <<"Run URL: ",
                                     runURL(url, organization, workspace, r')>>>>
                          \o (IF waits(wait)
                              THEN <<<<"Waiting for run to complete", "">>>>
                              ELSE <<>>)
                /\ pc' = IF waits(wait) THEN "select" ELSE "done"
                /\ err' = err
           ELSE /\ r' = r
                /\ out' = out
                /\ pc' = "done"
                /\ err' = ErrCreateRun
    /\ UNCHANGED <<jsonVars, withWait, cv, vars, i, found, store, nextId, extWrites,
                   ctxDone, elapsed, timer, polled>>

\* The process parked in the select while no arm is ready.  Past the ceiling
\* the clock only advances by the poll interval: a later long delay repeats
\* what the first one shows.
Park ==
    /\ pc = "select"
    /\ selectArms(ctxDone, timer) = {}
    /\ \E d \in WakeDelays :
        /\ d = pollInterval \/ elapsed < maximumTimeout
        /\ timer' = d
        /\ elapsed' = elapsed + d
    /\ UNCHANGED <<jsonVars, withWait, cv, r, vars, pc, i, found, store, nextId, extWrites,
                   calls, out, err, ctxDone, polled>>

\* case <-ctx.Done(): return ctx.Err()
SelectCancel ==
    /\ pc = "select"
    /\ "cancel" \in selectArms(ctxDone, timer)
    /\ pc' = "done"
    /\ err' = ErrContextCanceled
    /\ UNCHANGED <<jsonVars, withWait, cv, r, vars, i, found, store, nextId, extWrites, calls,
                   out, ctxDone, elapsed, timer, polled>>

\* case <-time.After(maximumTimeout): return fmt.Errorf("run timed out")
SelectTimeout ==
    /\ pc = "select"
    /\ "timeout" \in selectArms(ctxDone, timer)
    /\ pc' = "done"
    /\ err' = ErrTimedOut
    /\ UNCHANGED <<jsonVars, withWait, cv, r, vars, i, found, store, nextId, extWrites, calls,
                   out, ctxDone, elapsed, timer, polled>>

\* A switch whose failure cases start the run again.
afterStatus_runAgain(o) ==
    IF o = Continue THEN "select" ELSE IF o = Finished THEN "done" ELSE "run"

\* Where run() goes after the switch: each case returns, and with no case
\* taken the for loop goes round.
afterStatus(o) == IF o = Continue THEN "select" ELSE "done"

\* case <-time.After(time.Second * 5): the status read and the switch on the
\* status; with no case taken the for loop begins a new select, with new
\* timers.
SelectPoll ==
    /\ pc = "select"
    /\ "poll" \in selectArms(ctxDone, timer)
    /\ Len(polled) < MaxReads
    /\ \/ \E res \in Answers \ {"ok"} :
            /\ calls' = Append(calls, Call("Runs.Read", 0, r, res, NoReq, {}, {}))
            /\ out' = Append(out, <<"Checking in on run status...", "">>)
            /\ pc' = "done"
            /\ err' = ErrFindRun
            /\ UNCHANGED <<timer, polled>>
       \/ \E status \in RunStatuses :
            /\ "ok" \in Answers
            /\ calls' = Append(calls, Call("Runs.Read", 0, r, "ok", NoReq, {}, {}))
            /\ polled' = Append(polled, status)
            /\ LET o == statusOutcome(status) IN
               /\ out' = out \o <<<<"Checking in on run status...", "">>>>
                           \o (IF o = Finished
                               THEN <<<<"run finished successfully", "">>>>
                               ELSE <<>>)
               /\ pc' = afterStatus(o)
               /\ err' = IF o \in {Continue, Finished} THEN err ELSE o
               /\ timer' = IF o = Continue THEN 0 ELSE timer
    /\ UNCHANGED <<jsonVars, withWait, cv, r, vars, i, found, store, nextId, extWrites, ctxDone,
                   elapsed>>

\* if err := run(ctx, os.Args[1:]); err != nil { ...; os.Exit(1) }
exitCode(e) == IF e = "" THEN 0 ELSE 1

\* ---------------------------------------------------------- the environment

\* signal.NotifyContext(context.Background(), os.Interrupt): the interrupt.
Interrupt ==
    /\ pc # "done"
    /\ ~ctxDone
    /\ ctxDone' = TRUE
    /\ UNCHANGED <<jsonVars, withWait, cv, r, vars, pc, i, found, store, nextId, extWrites,
                   calls, out, err, elapsed, timer, polled>>

ReconcilePcs == {"list", "create", "relist", "update", "fallbackUpdate"}

ExtKeys == {"a", "b"}

\* Another process creates a variable in the workspace.
ExtCreate ==
    /\ pc \in ReconcilePcs
    /\ extWrites < MaxExtWrites
    /\ \E key \in ExtKeys, cat \in {CategoryTerraform, CategoryEnv} :
        /\ ~KeyTaken(store, [Key |-> key, Category |-> cat])
        /\ store' = Append(store, RemoteVar(nextId, key, cat, <<"e">>, FALSE, FALSE, ""))
    /\ nextId' = nextId + 1
    /\ extWrites' = extWrites + 1
    /\ UNCHANGED <<jsonVars, withWait, cv, r, vars, pc, i, found, calls, out, err, ctxDone,
                   elapsed, timer, polled>>

\* Another process deletes a variable of the workspace.
ExtDelete ==
    /\ pc \in ReconcilePcs
    /\ extWrites < MaxExtWrites
    /\ \E k \in 1..Len(store) : store' = RemoveId(store, store[k].ID)
    /\ extWrites' = extWrites + 1
    /\ UNCHANGED <<jsonVars, withWait, cv, r, vars, pc, i, found, nextId, calls, out, err,
                   ctxDone, elapsed, timer, polled>>

Next ==
    \/ ReadWorkspace
    \/ ListVariables
    \/ CreateVariable
    \/ RelistVariables
    \/ UpdateVariable
    \/ FallbackUpdateVariable
    \/ CreateConfigurationVersion
    \/ CreateRun
    \/ Park
    \/ SelectCancel
    \/ SelectTimeout
    \/ SelectPoll
    \/ Interrupt
    \/ ExtCreate
    \/ ExtDelete

Spec == Init /\ [][Next]_vars_


\* ------------------------------------------- the conversions on their own

\* Go values convertValueToString may be given, whether or not json-vars can
\* produce them: strings over a few characters, the six of containsHCLSyntax
\* among them, booleans, integers and floats.
TextChars == {"a", ".", "[", "]", "{", "}", "=", ","}
Texts == UNION {[1..m -> TextChars] : m \in 0..MaxTextLen}
GoValues ==
    {[t |-> "string", s |-> s] : s \in Texts}
        \cup {[t |-> "bool", b |-> b] : b \in BOOLEAN}
        \cup {[t |-> "int", neg |-> g, units |-> u] :
                    g \in BOOLEAN, u \in {7, 42, 1000}}
        \cup {[t |-> "int", neg |-> FALSE, units |-> 0]}
        \cup {[t |-> "float64", neg |-> FALSE, units |-> u, micros |-> f] :
                    u \in {0, 42}, f \in {0, 5, 500000}}

\* run() at the create step of one entry that sets nothing but the value,
\* against an empty workspace.
InitValues ==
    /\ \E value \in GoValues :
        vars = <<[Key |-> "a", Value |-> value, Description |-> NoText,
                  HCL |-> NoBool, Sensitive |-> NoBool]>>
    /\ jsonVars = <<>>
    /\ withWait = "false"
    /\ cv = ""
    /\ r = ""
    /\ store = <<>>
    /\ nextId = 1
    /\ pc = "create"
    /\ i = 1
    /\ found = 0
    /\ extWrites = 0
    /\ calls = <<>>
    /\ out = <<>>
    /\ err = ""
    /\ ctxDone = FALSE
    /\ elapsed = 0
    /\ timer = 0
    /\ polled = <<>>

NextValues == CreateVariable

SpecValues == InitValues /\ [][NextValues]_vars_


\* ------------------------------------------------------------ the claims

CallsOf(op, k) == {n \in 1..Len(calls) : calls[n].op = op /\ calls[n].entry = k}
Lists(k) == CallsOf("Variables.List", k)
Creates(k) == CallsOf("Variables.Create", k)
Updates(k) == CallsOf("Variables.Update", k)
Reads == CallsOf("Runs.Read", 0)
Entries == 1..Len(vars)

Least(S) == CHOOSE n \in S : \A m \in S : n <= m
\* The first list call made for entry k, and the one made after a conflict.
FirstList(k) == calls[Least(Lists(k))]
Relist(k) == calls[CHOOSE n \in Lists(k) : n # Least(Lists(k))]
Conflicted(k) == \E n \in Creates(k) : calls[n].res = ErrKeyTaken
RunCreated == \E n \in CallsOf("Runs.Create", 0) : calls[n].res = "ok"
\* run() has left the create step of entry k behind.
PastCreate(k) == i > k \/ pc # "create"
\* run() has left entry k behind.
PastEntry(k) == i > k \/ pc = "done"

\* C1: with wait enabled and no cancellation, the poller does not go on
\* waiting once the ceiling, maximumTimeout counted from the start of the
\* wait, has elapsed: it is never found parked in a select that it began at or
\* after the ceiling.
C1_TimeoutAtCeiling ==
    (pc = "select" /\ ~ctxDone /\ timer > 0) => elapsed - timer < maximumTimeout

\* C2: the poller reads until the first terminal status and no further: every
\* status before the last one read is non-terminal, a terminal status ends the
\* wait, a non-terminal one never does by itself, every answered read is one
\* status, and run() returns nil after a wait exactly when the last status is
\* applied or planned_and_finished.
C2_ReadsUntilFirstTerminal ==
    LET n == Len(polled) IN
    /\ \A k \in 1..(n - 1) : polled[k] \notin TerminalStatuses
    /\ Cardinality({m \in Reads : calls[m].res = "ok"}) = n
    /\ (n > 0 /\ polled[n] \in TerminalStatuses) =>
            /\ pc = "done"
            /\ (err = "") <=> (polled[n] \in SuccessStatuses)
    /\ (n > 0 /\ polled[n] \notin TerminalStatuses /\ pc = "done") =>
            err \in {ErrContextCanceled, ErrTimedOut, ErrFindRun}
    /\ (pc = "done" /\ err = "" /\ waits(wait)) =>
            (n > 0 /\ polled[n] \in SuccessStatuses)

C2_Witness ==
    /\ pc = "done"
    /\ err = ""
    /\ polled = <<RunPlanning, RunApplied>>
    /\ Cardinality(Reads) = 2

\* C3: a failure status ends the wait with an error, and that error tells the
\* three failure statuses apart and is none of the timeout, read-failure and
\* cancellation errors.
C3_FailureErrorsDistinct ==
    (pc = "done" /\ Len(polled) > 0 /\ polled[Len(polled)] \in FailureStatuses) =>
        /\ err # ""
        /\ err \notin {ErrTimedOut, ErrFindRun, ErrContextCanceled}
        /\ {t \in FailureStatuses : statusOutcome(t) = err} = {polled[Len(polled)]}

C3_Witness ==
    /\ pc = "done"
    /\ polled = <<RunPending, RunErrored>>
    /\ err = "run encountered an error"

\* C4: when ctx is done as the poller enters a select with no status read yet,
\* no time passes and no call is made there: the only step of run() is the
\* return of ctx.Err().
C4_CancelBeforeFirstRead ==
    [][(pc = "select" /\ ctxDone /\ timer = 0 /\ polled = <<>>) =>
            /\ elapsed' = elapsed
            /\ timer' = timer
            /\ calls' = calls
            /\ polled' = polled
            /\ \/ pc' = "select"
               \/ pc' = "done" /\ err' = ErrContextCanceled]_vars_

C4_Witness ==
    /\ pc = "done"
    /\ err = ErrContextCanceled
    /\ RunCreated
    /\ Reads = {}
    /\ elapsed = 0

\* C5, as stated: an entry whose key is absent from the list fetched for it
\* gets exactly one create call and no update call.
C5_AbsentKeyOnlyCreated ==
    \A k \in Entries :
        (Lists(k) # {} /\ FirstList(k).res = "ok" /\ FirstList(k).inPage = {}
            /\ PastEntry(k)) =>
            (Cardinality(Creates(k)) = 1 /\ Updates(k) = {})

\* C5, amended: such an entry gets exactly one create call, and an update call
\* only when that create was answered with the conflict, and then one.
C5_AbsentKeyCreatedOnce ==
    \A k \in Entries :
        (Lists(k) # {} /\ FirstList(k).res = "ok" /\ FirstList(k).inPage = {}) =>
            /\ Cardinality(Creates(k)) = (IF PastCreate(k) THEN 1 ELSE 0)
            /\ Cardinality(Updates(k)) <= 1
            /\ Updates(k) # {} => Conflicted(k)

C5_Witness ==
    /\ pc = "done"
    /\ err = ""
    /\ \E k \in Entries :
        /\ FirstList(k).res = "ok" /\ FirstList(k).inPage = {}
        /\ \E n \in Creates(k) : calls[n].res = "ok"
        /\ Updates(k) = {}

\* C6: an entry whose key is held by a variable of the workspace when its
\* list is fetched gets no create call and exactly one update call, addressed
\* to a variable that held the key.
C6_PresentKeyOnlyUpdated ==
    \A k \in Entries :
        (Lists(k) # {} /\ FirstList(k).res = "ok" /\ FirstList(k).inStore # {}) =>
            /\ Creates(k) = {}
            /\ PastEntry(k) =>
                /\ Cardinality(Updates(k)) = 1
                /\ \A n \in Updates(k) : calls[n].id \in FirstList(k).inStore

\* C7: when no variable held the key at the first list and the create is
\* answered with the conflict (a concurrent writer created the key in
\* between), there is one more list call; when it is answered and the
\* workspace then holds the key, the variable is located and one update, with
\* the request of the key-present path, goes to a variable holding the key.
C7_ConflictFallsBackToUpdate ==
    \A k \in Entries :
        (Conflicted(k) /\ FirstList(k).inStore = {} /\ PastEntry(k)) =>
            /\ Cardinality(Lists(k)) = 2
            /\ (Relist(k).res = "ok" /\ Relist(k).inStore # {}) =>
                /\ Cardinality(Updates(k)) = 1
                /\ \A n \in Updates(k) :
                    /\ calls[n].id \in Relist(k).inStore
                    /\ calls[n].req = updateOpts(vars[k])

\* C8: a remote call that fails, other than a create answered with the
\* conflict, is the last call of the invocation, and run() has returned an
\* error.
C8_FirstFailureIsLastCall ==
    \A n \in 1..Len(calls) :
        (calls[n].res # "ok"
            /\ ~(calls[n].op = "Variables.Create" /\ calls[n].res = ErrKeyTaken)) =>
            (n = Len(calls) /\ pc = "done" /\ err # "")

C8_Witness ==
    /\ pc = "done"
    /\ err = ErrList
    /\ Len(vars) = 2
    /\ Len(calls) = 2
    /\ calls[2].op = "Variables.List" /\ calls[2].res = ErrRemote

\* C9: no entry gets a second create call, and after a conflict a list that
\* fails or lacks the key, or an update that fails, is the last call of the
\* invocation, which ends with an error.
C9_OneConflictAbsorbed ==
    \A k \in Entries :
        /\ Cardinality(Creates(k)) <= 1
        /\ Conflicted(k) =>
            /\ Cardinality(Lists(k)) <= 2
            /\ \A n \in Lists(k) \cup Updates(k) :
                (n > Least(Creates(k))
                    /\ \/ calls[n].res # "ok"
                       \/ calls[n].op = "Variables.List" /\ calls[n].inPage = {}) =>
                    (n = Len(calls) /\ pc = "done" /\ err # "" /\ i = k)

C9_Witness ==
    /\ pc = "done"
    /\ err = ErrNotFoundForUpdate
    /\ Conflicted(i)
    /\ Cardinality(Creates(i)) = 1

\* The category the caller wrote for entry k, the default when none.
DesiredCategory(k) ==
    IF jsonVars[k].category = "" THEN CategoryTerraform ELSE jsonVars[k].category

\* C10: a create request carries the category the entry specifies (the default
\* when it specifies none), and an entry that specifies a category is never
\* updated into a variable of another category.
C10_CategoryRespected ==
    /\ \A k \in Entries : \A n \in Creates(k) :
            calls[n].req.Category = DesiredCategory(k)
    /\ \A k \in Entries : \A n \in Updates(k) :
            (jsonVars[k].category # "" /\ HasId(store, calls[n].id)) =>
                VarOfId(store, calls[n].id).Category = jsonVars[k].category

\* stdout holds a line with the tag.
HasLine(tag) == \E n \in 1..Len(out) : out[n][1] = tag

\* C11: when the step sets wait to "false", a created run ends the
\* invocation at once: run() has returned nil, no status read was issued and
\* no time was spent waiting.
C11_OptOutSkipsPoller ==
    (withWait = "false" /\ RunCreated) =>
        /\ pc = "done"
        /\ err = ""
        /\ Reads = {}
        /\ polled = <<>>
        /\ elapsed = 0
        /\ ~HasLine("Waiting for run to complete")

C11_Witness ==
    /\ withWait = "false"
    /\ RunCreated
    /\ pc = "done"
    /\ err = ""
    /\ Len(vars) = 2

LinesAt(tag) == {n \in 1..Len(out) : out[n][1] = tag}
RunCreates == CallsOf("Runs.Create", 0)
ConfigurationVersionCreates == CallsOf("ConfigurationVersions.Create", 0)

\* C13: once Runs.Create has succeeded, stdout holds the run-id line with the
\* run's identifier and the run-url line with
\* url/app/organization/workspaces/workspace/runs/<identifier>, both ahead of
\* every "Checking in on run status..." line, whatever run() does or returns
\* afterwards; while Runs.Create has not succeeded, stdout holds no run-id,
\* run-url or "Run URL: " line.
C13_RunOutputBeforeReads ==
    /\ RunCreated =>
        /\ r # ""
        /\ \E a \in LinesAt("::set-output name=run-id::") :
           \E b \in LinesAt("::set-output name=run-url::") :
            /\ out[a][2] = r
            /\ out[b][2] = <<url, "/app/", organization, "/workspaces/",
                             workspace, "/runs/", r>>
            /\ \A c \in LinesAt("Checking in on run status...") : a < c /\ b < c
    /\ Reads # {} => LinesAt("::set-output name=run-url::") # {}
    /\ ~RunCreated =>
        /\ LinesAt("::set-output name=run-id::") = {}
        /\ LinesAt("::set-output name=run-url::") = {}
        /\ LinesAt("Run URL: ") = {}

C13_Witness ==
    /\ pc = "done"
    /\ err = "run was discarded"
    /\ Cardinality(Reads) = 2
    /\ LinesAt("::set-output name=run-id::") # {}
    /\ LinesAt("::set-output name=run-url::") # {}

\* C14: every ConfigurationVersions.Create and Runs.Create call comes after a
\* successful create or update call for each entry of vars, Runs.Create comes
\* after a successful ConfigurationVersions.Create, and every Runs.Read call
\* comes after a successful Runs.Create.
C14_StagesInOrder ==
    \A n \in 1..Len(calls) :
        /\ calls[n].op \in {"ConfigurationVersions.Create", "Runs.Create"} =>
            \A k \in Entries :
                \E m \in 1..(n - 1) :
                    /\ calls[m].entry = k
                    /\ calls[m].op \in {"Variables.Create", "Variables.Update"}
                    /\ calls[m].res = "ok"
        /\ calls[n].op = "Runs.Create" =>
            \E m \in 1..(n - 1) :
                calls[m].op = "ConfigurationVersions.Create" /\ calls[m].res = "ok"
        /\ calls[n].op = "Runs.Read" =>
            \E m \in 1..(n - 1) :
                calls[m].op = "Runs.Create" /\ calls[m].res = "ok"

C14_Witness ==
    /\ pc = "done"
    /\ Len(vars) = 2
    /\ \E k \in Entries : Creates(k) # {}
    /\ \E k \in Entries : Updates(k) # {}
    /\ Cardinality(Reads) = 2

\* C15: run() issues at most one Runs.Create call, each comes after a
\* ConfigurationVersions.Create call that succeeded and carries the identifier
\* that call returned, and after a failed ConfigurationVersions.Create call
\* there is none.
C15_OneRunOnConfigurationVersion ==
    /\ Cardinality(RunCreates) <= 1
    /\ Cardinality({n \in RunCreates : calls[n].res = "ok"})
            = (IF r = "" THEN 0 ELSE 1)
    /\ \A n \in RunCreates :
        \E m \in ConfigurationVersionCreates :
            /\ m < n
            /\ calls[m].res = "ok"
            /\ calls[m].id # ""
            /\ calls[n].req.ConfigurationVersion = calls[m].id
    /\ (\E m \in ConfigurationVersionCreates : calls[m].res # "ok") =>
            (RunCreates = {} /\ r = "")

C15_Witness ==
    /\ pc = "done"
    /\ err = ""
    /\ Cardinality(RunCreates) = 1
    /\ \A n \in RunCreates :
        calls[n].res = "ok" /\ calls[n].req.ConfigurationVersion = cv
    /\ cv = NewConfigurationVersionID

\* C16: every remote call after the successful Runs.Create is a Runs.Read of
\* that run; none creates, updates or cancels anything, whatever ends the
\* wait.
C16_OnlyObservesTheRun ==
    \A n \in RunCreates : \A m \in 1..Len(calls) :
        (calls[n].res = "ok" /\ m > n) =>
            (calls[m].op = "Runs.Read" /\ calls[m].id = r)

C16_Witness ==
    /\ pc = "done"
    /\ err \in {"run was canceled", ErrTimedOut, ErrFindRun, ErrContextCanceled}
    /\ Cardinality(Reads) = 2

\* C17: a step run() takes from the select while ctx.Done() is ready is the
\* cancellation arm, also when the poll timer or the timeout timer is ready
\* too: it issues no call and returns ctx.Err().
C17_CancelArmFirst ==
    [][(pc = "select" /\ ctxDone /\ pc' # "select") =>
            /\ calls' = calls
            /\ polled' = polled
            /\ pc' = "done"
            /\ err' = ErrContextCanceled]_vars_

\* C18: a create request carries the entry's key, the converted value, hcl as
\* the entry sets it or else as containsHCLSyntax finds the converted value,
\* sensitive as the entry sets it or else false, and the description exactly
\* when the entry has one.
C18_CreateRequestFields ==
    \A k \in Entries : \A n \in Creates(k) :
        LET j == jsonVars[k]
            q == calls[n].req
            text == convertValueToString(DecodeValue(j.value))
        IN  /\ q.Key = j.key
            /\ q.Value = text
            /\ q.HCL = Some(IF j.hcl.set THEN j.hcl.v
                            ELSE \E c \in {"[", "]", "{", "}", "=", ","} :
                                    \E p \in 1..Len(text) : text[p] = c)
            /\ q.Sensitive = Some(IF j.sensitive.set THEN j.sensitive.v ELSE FALSE)
            /\ q.Description.set = j.description.set
            /\ j.description.set => q.Description.v = j.description.v

C18_Witness ==
    \E k \in Entries : \E n \in Creates(k) :
        /\ calls[n].res = "ok"
        /\ ~jsonVars[k].hcl.set
        /\ calls[n].req.Value = <<"[", "x", "]">>
        /\ calls[n].req.HCL = Some(TRUE)
        /\ calls[n].req.Sensitive = Some(TRUE)
        /\ calls[n].req.Description = Some("d")

\* C19: an update leaves the remote variable with the value, hcl flag and
\* sensitive flag a create request for the same entry carries: right after a
\* successful update, of either branch, the variable it addressed has them.
C19_UpdateLeavesWhatCreateWould ==
    \A k \in Entries : \A n \in Updates(k) :
        (n = Len(calls) /\ calls[n].res = "ok" /\ HasId(store, calls[n].id)) =>
            LET rv == VarOfId(store, calls[n].id)
                c == createOpts(vars[k])
            IN  /\ rv.Value = c.Value
                /\ rv.HCL = c.HCL.v
                /\ rv.Sensitive = c.Sensitive.v

\* C20: a list call that is answered while the workspace holds a variable
\* with the entry's key finds such a variable, wherever in the workspace's
\* listing it lies.
C20_LookupSeesWholeWorkspace ==
    \A k \in Entries : \A n \in Lists(k) :
        (calls[n].res = "ok" /\ calls[n].inStore # {}) =>
            calls[n].id \in calls[n].inStore

\* The keys the desired list names.
DesiredKeys == {jsonVars[k].key : k \in 1..Len(jsonVars)}

\* C21: a step of run() removes no variable from the workspace and leaves
\* every variable whose key the desired list does not name as it was; so with
\* no external writer the variables of other keys are unchanged after the
\* invocation and no key is lost.
C21_OtherVariablesUntouched ==
    [][extWrites' = extWrites =>
            \A p \in 1..Len(store) :
                \E q \in 1..Len(store') :
                    /\ store'[q].ID = store[p].ID
                    /\ store'[q].Key = store[p].Key
                    /\ store[p].Key \notin DesiredKeys => store'[q] = store[p]]_vars_

C21_Witness ==
    /\ pc = "done"
    /\ err = ""
    /\ extWrites = 0
    /\ Len(store) = 4
    /\ store[1] = Old(1, "x", CategoryTerraform)
    /\ store[2] = Old(2, "y", CategoryTerraform)
    /\ \E k \in Entries : \E n \in Creates(k) : calls[n].res = "ok"

\* The lines run() prints about variables, and the other lines it prints.
VariableTags ==
    {"Created variable", "already exists, updating instead", "Updated variable"}
OtherTags ==
    {"Creating configuration version...", "Configuration version created",
     "::set-output name=run-id::", "::set-output name=run-url::", "Run URL: ",
     "Waiting for run to complete", "Checking in on run status...",
     "run finished successfully"}

\* The variable lines that follow from the calls made and their answers,
\* given the keys of the entries and nothing else of them.
LinesOfCall(c) ==
    CASE c.op = "Variables.Create" /\ c.res = "ok" ->
            <<<<"Created variable", <<jsonVars[c.entry].key>>>>>>
      [] c.op = "Variables.Create" /\ c.res = ErrKeyTaken ->
            <<<<"already exists, updating instead", <<jsonVars[c.entry].key>>>>>>
      [] c.op = "Variables.Update" /\ c.res = "ok" ->
            <<<<"Updated variable", <<jsonVars[c.entry].key>>>>>>
      [] OTHER -> <<>>

RECURSIVE LinesOfCalls(_)
LinesOfCalls(n) == IF n = 0 THEN <<>> ELSE LinesOfCalls(n - 1) \o LinesOfCall(calls[n])

\* C22: what run() prints is determined by the calls it made, their answers
\* and the entries' keys; the value of an entry, sensitive or not, is in no
\* line.  Two invocations that differ only in a value and get the same
\* answers therefore print the same lines.
C22_LinesIndependentOfValues ==
    /\ SelectSeq(out, LAMBDA l : l[1] \in VariableTags) = LinesOfCalls(Len(calls))
    /\ \A n \in 1..Len(out) :
        CASE out[n][1] \in VariableTags -> TRUE
          [] out[n][1] = "Configuration version created" -> out[n][2] = cv
          [] out[n][1] = "::set-output name=run-id::" -> out[n][2] = r
          [] out[n][1] \in {"::set-output name=run-url::", "Run URL: "} ->
                out[n][2] = runURL(url, organization, workspace, r)
          [] out[n][1] \in OtherTags -> out[n][2] = ""
          [] OTHER -> FALSE

C22_Witness ==
    /\ pc = "done"
    /\ err = ""
    /\ \E k \in Entries :
        /\ jsonVars[k].sensitive = Some(TRUE)
        /\ \E n \in Creates(k) : calls[n].res = "ok"
    /\ \E n \in 1..Len(out) : out[n] = <<"Created variable", <<"a">>>>

\* The text the desired list asks to be transmitted for a JSON value: an
\* integer as its base-10 digits, a boolean as true or false, a string as it
\* is.
PlainText(jv) ==
    CASE jv.t = "string" -> jv.s
      [] jv.t = "bool" -> IF jv.b THEN <<"t", "r", "u", "e">>
                          ELSE <<"f", "a", "l", "s", "e">>
      [] jv.t = "number" /\ jv.micros = 0 ->
            (IF jv.neg THEN <<"-">> ELSE <<>>) \o Decimal(jv.units)

\* C23: every create and update request carries, for an entry whose JSON
\* value is an integer, a boolean or a string, that plain text: the integer
\* has no fractional part.
C23_IntegerAsBase10 ==
    \A k \in Entries : \A n \in Creates(k) \cup Updates(k) :
        LET jv == jsonVars[k].value IN
        (jv.t \in {"string", "bool"} \/ (jv.t = "number" /\ jv.micros = 0)) =>
            calls[n].req.Value = PlainText(jv)

\* The characters of the texts convertValueToString produces here.
OutputChars ==
    TextChars \cup {DigitChars[d] : d \in 1..10}
        \cup {"-", "t", "r", "u", "e", "f", "l", "s"}

\* C24: for every string, boolean, integer and float the create request's
\* value is a string; for a string it is that string, and converting it once
\* more gives it again.
C24_ConvertIdempotentOnStrings ==
    \A n \in 1..Len(calls) :
        LET value == vars[calls[n].entry].Value
            text == calls[n].req.Value
        IN  /\ \A p \in 1..Len(text) : text[p] \in OutputChars
            /\ value.t \in {"bool", "int", "float64"} => Len(text) > 0
            /\ value.t = "string" =>
                /\ text = value.s
                /\ convertValueToString([t |-> "string", s |-> text]) = text
                /\ convertValueToString(
                        [t |-> "string",
                         s |-> convertValueToString([t |-> "string", s |-> text])])
                       = convertValueToString([t |-> "string", s |-> text])

C24_Witness ==
    /\ Len(calls) = 1
    /\ calls[1].res = "ok"
    /\ vars[1].Value = [t |-> "string", s |-> <<"a", ".">>]
    /\ calls[1].req.Value = <<"a", ".">>
    /\ store[1].Value = <<"a", ".">>

\* C25: with hcl unset, the create request's hcl flag is true exactly when
\* the converted value holds one of [ ] { } = and , and false otherwise, the
\* empty string included.
C25_HCLSyntaxIffSixChars ==
    \A n \in 1..Len(calls) :
        LET text == calls[n].req.Value IN
        calls[n].req.HCL =
            Some(\E p \in 1..Len(text) : text[p] \in {"[", "]", "{", "}", "=", ","})

C25_Witness ==
    /\ Len(calls) = 1
    /\ vars[1].Value = [t |-> "string", s |-> <<"a", ",">>]
    /\ calls[1].req.HCL = Some(TRUE)

\* Wait enabled, no interrupt, no external write, every call so far answered
\* with success, and the desired keys distinct and absent from the workspace
\* when their lists were fetched.
CleanRun ==
    /\ waits(wait)
    /\ ~ctxDone
    /\ extWrites = 0
    /\ \A n \in 1..Len(calls) : calls[n].res = "ok"
    /\ \A j, k \in 1..Len(jsonVars) : j # k => jsonVars[j].key # jsonVars[k].key
    /\ \A n \in 1..Len(calls) :
        calls[n].op = "Variables.List" => calls[n].inStore = {}

\* C26: in such an invocation no update is ever issued and no entry is
\* created twice; and once a success status has been read as the first
\* terminal one, at position n, run() has returned nil after exactly one
\* create per entry with its converted value, one Runs.Create, n status reads,
\* and with the run URL of organization, workspace and run id printed.
C26_EndToEnd ==
    CleanRun =>
        /\ \A k \in 1..Len(jsonVars) :
            Updates(k) = {} /\ Cardinality(Creates(k)) <= 1
        /\ (Len(polled) > 0 /\ polled[Len(polled)] \in SuccessStatuses) =>
            /\ pc = "done"
            /\ err = ""
            /\ \A p \in 1..(Len(polled) - 1) : polled[p] \notin TerminalStatuses
            /\ Cardinality(Reads) = Len(polled)
            /\ Cardinality(RunCreates) = 1
            /\ \A k \in 1..Len(jsonVars) :
                /\ Cardinality(Creates(k)) = 1
                /\ \A n \in Creates(k) :
                    calls[n].req.Value
                        = convertValueToString(DecodeValue(jsonVars[k].value))
            /\ \E n \in LinesAt("::set-output name=run-url::") :
                out[n][2] = <<url, "/app/", organization, "/workspaces/",
                              workspace, "/runs/", r>>

C26_Witness ==
    /\ CleanRun
    /\ pc = "done"
    /\ err = ""
    /\ Len(jsonVars) = 2
    /\ polled = <<RunPending, RunApplied>>
    /\ Cardinality(Reads) = 2

\* C27: for a desired list of two entries with one key, against a workspace
\* that lacks the key, with no external write, no interrupt and no failure of
\* the service: once run() is past the second entry it has issued one create,
\* for the first entry, and one update, for the second, without an error, and
\* the workspace holds one variable with the key, whose value is the converted
\* value of the second entry.
C27_DuplicateKeyCreateThenUpdate ==
    (/\ Len(vars) = 2
     /\ vars[1].Key = vars[2].Key
     /\ extWrites = 0
     /\ ~ctxDone
     /\ \A n \in 1..Len(calls) : calls[n].res \in {"ok", ErrKeyTaken}
     /\ Lists(1) # {}
     /\ FirstList(1).inStore = {}
     /\ PastEntry(2)) =>
        /\ Cardinality(Creates(1)) = 1
        /\ Updates(1) = {}
        /\ Creates(2) = {}
        /\ Cardinality(Updates(2)) = 1
        /\ Cardinality(IdsOfKey(store, vars[2].Key)) = 1
        /\ \A id \in IdsOfKey(store, vars[2].Key) :
            VarOfId(store, id).Value = convertValueToString(vars[2].Value)

\* C28: whatever the external writer and the service do, run() issues for
\* each entry at most two list calls, one create call and one update call,
\* the calls for the entries come in the order of the list with none for an
\* earlier entry after one for a later entry, and the calls for variables
\* number at most four per entry.
C28_BoundedReconciliation ==
    /\ \A k \in Entries :
        /\ Cardinality(Lists(k)) <= 2
        /\ Cardinality(Creates(k)) <= 1
        /\ Cardinality(Updates(k)) <= 1
    /\ \A n \in 2..Len(calls) :
        calls[n].entry > 0 =>
            /\ calls[n - 1].entry \in {calls[n].entry, calls[n].entry - 1}
            /\ calls[n].entry <= Len(vars)
    /\ Cardinality({n \in 1..Len(calls) : calls[n].entry > 0}) <= 4 * Len(vars)

C28_Witness ==
    /\ pc = "done"
    /\ err = ""
    /\ Len(vars) = 2
    /\ \E k \in Entries :
        /\ Cardinality(Lists(k)) = 2
        /\ Cardinality(Creates(k)) = 1
        /\ Cardinality(Updates(k)) = 1

\* C29: when run() has returned, it returned nil exactly when the run was
\* created and either wait is off or the last status read is applied or
\* planned_and_finished; in every other case it returned an error and the
\* process exits with 1.
C29_SuccessOnlyWhen ==
    pc = "done" =>
        LET success ==
                /\ RunCreated
                /\ \/ ~waits(wait)
                   \/ Len(polled) > 0 /\ polled[Len(polled)] \in SuccessStatuses
        IN  /\ (err = "") <=> success
            /\ exitCode(err) = (IF success THEN 0 ELSE 1)

C29_Witness ==
    /\ pc = "done"
    /\ RunCreated
    /\ polled = <<RunPending, RunDiscarded>>
    /\ err = "run was discarded"
    /\ exitCode(err) = 1

====
